---- MODULE Spec2Model ----
(***************************************************************************)
(* A model of mozichem-ai: the MCP source validation (MCPManager), the     *)
(* agent assembly (MoziChemAgent / create_agent), the configuration        *)
(* endpoints of the API (create_api) and the chat turns (/chat and         *)
(* /chat-stream).                                                          *)
(*                                                                         *)
(* Python values are modelled as follows.  None is the string None; a key  *)
(* missing from a dict is the string Absent; a dict is a function whose    *)
(* domain is its key set (server names are the numbers 1..MaxServers and   *)
(* are iterated in ascending order); an exception raised by a function is  *)
(* the record [kind |-> "raise", exc |-> <class name>] and a returned      *)
(* value is [kind |-> "ok", value |-> v].                                  *)
(***************************************************************************)
EXTENDS Integers, Sequences, FiniteSets, TLC

\* ------------------------------------------------------------------ bounds
\* number of distinct server names an MCP source may hold
MaxServers == 2

\* ------------------------------------------------------------ Python values
None == "<None>"
Absent == "<absent>"

Return(v) == [kind |-> "ok", value |-> v]
Raise(e) == [kind |-> "raise", exc |-> e]

EmptyDict == [n \in {} |-> None]

\* ------------------------------------------------------------- input sets
ServerNames == 1..MaxServers

\* the transport tags a source entry may carry ("sse" stands for any tag the
\* manager does not support, Absent for an entry without the key)
Transports == {"stdio", "streamable_http", "sse", Absent}

\* one entry of an MCP source: the keys the models read
EntryConfigs ==
    [transport : Transports,
     command : {Absent, "python"},
     url : {Absent, "http://127.0.0.1:8000/mcp/"}]

\* every dict source over the server names
DictSources ==
    UNION {[names -> EntryConfigs] : names \in SUBSET ServerNames}

\* number of messages one agent run may emit
MaxMessages == 2
\* number of update chunks one streamed run may yield
MaxChunks == 2
\* number of thread ids generate_thread may hand out in one run of the model
MaxGenerated == 2
\* number of websocket clients
MaxClients == 1
\* number of reconfiguration requests one run of the overlap model begins
MaxRequests == 2
\* number of websockets whose /ws handlers are followed await by await
MaxSockets == 2
\* number of completed turns per thread the memory model follows
MaxTurns == 2

\* ---------------------------------------------------------------- variables
VARIABLES
    mcp,          \* MCPManager.mcp: the source handed to the manager
    mcp_result    \* what config_mcp did: Absent before the call, then a
                  \* Return or a Raise

mcpVars == <<mcp, mcp_result>>

VARIABLES
    api_pc,          \* "new" before create_api, "serving" once it returned
                     \* the app, "failed" when it raised
    app_state,       \* app.state: the configuration the API reports
    agent,           \* app.state.agent: the compiled agent in use
    closure,         \* create_api's parameters, captured by the handlers
                     \* (the nonlocal names of set_agent_config)
    kwargs,          \* create_api's **kwargs dict, shared by the handlers
    MoziChemAgent_,  \* the MoziChemAgent instance of the last create_agent
    http_response    \* the last answer of a configuration endpoint

apiVars == <<api_pc, app_state, agent, closure, kwargs, MoziChemAgent_,
             http_response>>

\* the variables of the API a chat turn leaves alone: a turn changes what
\* the checkpointer of the agent holds
configVars == <<api_pc, app_state, closure, kwargs, MoziChemAgent_,
               http_response>>

VARIABLES
    chat_pc,            \* "idle", "pending" (a request awaits its handler)
                        \* or "done" (the handler returned chat_response)
    chat_request,       \* the ChatMessage posted by the user
    agent_output,       \* what the agent did in this turn
    runnable_config,    \* configurable.thread_id the agent was invoked with
    token_metadata,     \* what message_token_counter did in this turn
    chat_response,      \* the answer of the handler
    threads_generated,  \* number of thread ids generated so far
    websocket_clients,  \* the set of connected websockets
    ws_sent             \* the messages sent over websockets in this turn

chatVars == <<chat_pc, chat_request, agent_output, runnable_config,
              token_metadata, chat_response, threads_generated,
              websocket_clients, ws_sent>>

VARIABLES
    in_flight    \* the reconfiguration requests begun so far, in order: one
                 \* suspended in "await create_agent(...)" holds the agent
                 \* being built for it, a completed one its status code

VARIABLES
    ws_peer,     \* where the /ws handler of each websocket is: "none" (not
                 \* connected yet), "open" (in receive_text), "closing" (the
                 \* peer went away, receive_text is about to raise), "ended"
                 \* (the handler returned) or "failed" (it raised)
    broadcast    \* where the broadcasts of a /chat-stream turn are: the
                 \* agent messages left to broadcast, the clients of the
                 \* snapshot left to send the first of them to, and the
                 \* client whose send_text is awaited (0 for none)

VARIABLES
    turns        \* history: for each thread id, the number of agent runs
                 \* that completed on it since create_api returned

stepVars == <<in_flight, ws_peer, broadcast, turns>>

vars == <<mcp, mcp_result, api_pc, app_state, agent, closure, kwargs,
          MoziChemAgent_, http_response, chat_pc, chat_request, agent_output,
          runnable_config, token_metadata, chat_response, threads_generated,
          websocket_clients, ws_sent, in_flight, ws_peer, broadcast, turns>>

\* ------------------------------------------------------- models/mcp.py
\* stdioMCP(**mcp_config): every field has a default, unknown keys are
\* ignored by pydantic
stdioMCP(mcp_config) ==
    Return([cls |-> "stdioMCP",
            transport |-> IF mcp_config.transport = Absent
                          THEN "stdio" ELSE mcp_config.transport,
            command |-> IF mcp_config.command = Absent
                        THEN None ELSE mcp_config.command])

\* streamableHttpMCP with url declared Optional, as stdioMCP.command is
streamableHttpMCP_optional_url(mcp_config) ==
    Return([cls |-> "streamableHttpMCP",
            transport |-> IF mcp_config.transport = Absent
                          THEN "streamable_http" ELSE mcp_config.transport,
            url |-> IF mcp_config.url = Absent THEN None ELSE mcp_config.url])

\* streamableHttpMCP(**mcp_config): url is required (Field(...))
streamableHttpMCP(mcp_config) ==
    IF mcp_config.url = Absent
    THEN Raise("ValidationError")
    ELSE Return([cls |-> "streamableHttpMCP",
                 transport |-> IF mcp_config.transport = Absent
                               THEN "streamable_http"
                               ELSE mcp_config.transport,
                 url |-> mcp_config.url])

\* model_dump() of either model: the plain dict of its fields, in the shape
\* of a source entry
model_dump(config) ==
    IF config.cls = "stdioMCP"
    THEN [transport |-> config.transport, command |-> config.command,
          url |-> Absent]
    ELSE [transport |-> config.transport, command |-> Absent,
          url |-> config.url]

\* ------------------------------------------------- agents/mcp_manager.py
Min(S) == CHOOSE x \in S : \A y \in S : x <= y

\* the loop body with the elif branch building the model of the if branch
config_mcp_entry_same_model(mcp_config) ==
    IF mcp_config.transport = Absent
    THEN Raise("KeyError")
    ELSE IF mcp_config.transport \in {"stdio", "streamable_http"}
    THEN stdioMCP(mcp_config)
    ELSE Raise("ValueError")

\* the loop body with a final else that falls back to stdio
config_mcp_entry_fallback(mcp_config) ==
    IF mcp_config.transport = "streamable_http"
    THEN streamableHttpMCP(mcp_config)
    ELSE stdioMCP(mcp_config)

\* the body of the for loop of config_mcp for one (mcp_name, mcp_config)
config_mcp_entry(mcp_config) ==
    IF mcp_config.transport = Absent
    THEN Raise("KeyError")
    ELSE IF mcp_config.transport = "stdio"
    THEN stdioMCP(mcp_config)
    ELSE IF mcp_config.transport = "streamable_http"
    THEN streamableHttpMCP(mcp_config)
    ELSE Raise("ValueError")

\* the for loop of config_mcp: todo are the keys not yet visited
RECURSIVE config_mcp_loop(_, _, _)
config_mcp_loop(source, todo, mcp_dict) ==
    IF todo = {}
    THEN Return(mcp_dict)
    ELSE LET mcp_name == Min(todo)
             r == config_mcp_entry(source[mcp_name])
         IN  IF r.kind = "raise"
             THEN r
             ELSE config_mcp_loop(source, todo \ {mcp_name},
                                  (mcp_name :> r.value) @@ mcp_dict)

\* the sources an MCPManager is constructed with
NoSource == [kind |-> "none"]
DictSource(d) == [kind |-> "dict", d |-> d]

\* ------------------------------------------------------- utils/loader.py
\* a YAML mapping as it stands in a file: key/value pairs in file order,
\* over the server names, at most MaxServers of them; a key may occur twice
YamlPairs == [key : ServerNames, value : EntryConfigs]

YamlMappings == UNION {[1..k -> YamlPairs] : k \in 0..MaxServers}

\* what a file may hold: text that is no YAML, no document at all, a
\* document whose root is a sequence, a document whose root is a mapping
YamlDocuments ==
    {[root |-> "malformed"], [root |-> "empty"], [root |-> "sequence"]}
    \cup {[root |-> "mapping", pairs |-> pairs] :
             pairs \in YamlMappings}

\* what the file system holds at a path: no regular file (nothing, or a
\* directory), or a file with its content
NoFile == [state |-> "missing"]
Files == {NoFile} \cup {[state |-> "file", doc |-> y] : y \in YamlDocuments}

\* the paths handed to the manager: the empty one and a non-empty one
PathNames == {"", "mcp.yaml"}

\* a source that is a path, as a str or as a pathlib.Path, with what the file
\* system holds at it when config_mcp runs; Path("") is the directory "."
PathSource(cls, path, file) ==
    [kind |-> "path", cls |-> cls, path |-> path, file |-> file]

PathSources ==
    {PathSource(cls, "", NoFile) : cls \in {"str", "Path"}}
    \cup {PathSource(cls, path, file) :
              cls \in {"str", "Path"},
              path \in PathNames \ {""},
              file \in Files}

\* what self.mcp is after a successful load: the value read, with the path
\* it was read from kept as history
Loaded(value, source) ==
    IF value.kind = "dict"
    THEN [kind |-> "dict", d |-> value.d, origin |-> source]
    ELSE [kind |-> value.kind, origin |-> source]

\* the dict yaml builds from the pairs of a mapping: a later pair replaces
\* an earlier one with the same key
RECURSIVE construct_mapping(_, _)
construct_mapping(pairs, d) ==
    IF pairs = <<>>
    THEN d
    ELSE LET pair == Head(pairs)
             others == [n \in DOMAIN d \ {pair.key} |-> d[n]]
         IN  construct_mapping(Tail(pairs),
                               (pair.key :> pair.value) @@ others)

\* yaml.safe_load(f): None for an empty document, a list for a sequence, a
\* dict for a mapping, YAMLError for text that is no YAML
safe_load(doc) ==
    IF doc.root = "malformed" THEN Raise("YAMLError")
    ELSE IF doc.root = "empty" THEN Return(NoSource)
    ELSE IF doc.root = "sequence" THEN Return([kind |-> "list"])
    ELSE Return(DictSource(construct_mapping(doc.pairs, EmptyDict)))

\* load_yaml_file(filepath)
load_yaml_file(source) ==
    IF source.file.state # "file"
    THEN Raise("FileNotFoundError")
    ELSE LET r == safe_load(source.file.doc)
         IN  IF r.kind = "raise" THEN Raise("YAMLError") ELSE r

\* ------------------------------------------------- agents/mcp_manager.py
\* _load_mcp_from_yaml answering a failed load with an empty dict
load_mcp_from_yaml_lenient(mcp_source) ==
    LET r == load_yaml_file(mcp_source)
    IN  IF r.kind = "raise" THEN Return(DictSource(EmptyDict)) ELSE r

\* MCPManager._load_mcp_from_yaml(mcp_source)
load_mcp_from_yaml(mcp_source) ==
    LET r == load_yaml_file(mcp_source)
    IN  IF r.kind = "raise" THEN Raise("RuntimeError") ELSE r

\* 'not self.mcp' for a path: "" is falsy, every Path is truthy
FalsyPath(source) == source.cls = "str" /\ source.path = ""

\* MCPManager(source).config_mcp() for a source that is a path: the file is
\* loaded and the loop runs over what it holds; a loaded value without
\* items() raises AttributeError
config_mcp_path(source) ==
    IF FalsyPath(source)
    THEN Return(EmptyDict)
    ELSE LET loaded == load_mcp_from_yaml(source)
         IN  IF loaded.kind = "raise" \/ loaded.value.kind # "dict"
             THEN Raise("RuntimeError")
             ELSE LET r == config_mcp_loop(loaded.value.d,
                                           DOMAIN loaded.value.d, EmptyDict)
                  IN  IF r.kind = "raise" THEN Raise("RuntimeError") ELSE r

\* MCPManager(source).config_mcp() for a source that is None or a dict
config_mcp(source) ==
    IF source.kind = "none" \/ (source.kind = "dict" /\ DOMAIN source.d = {})
    THEN Return(EmptyDict)
    ELSE LET r == config_mcp_loop(source.d, DOMAIN source.d, EmptyDict)
         IN  IF r.kind = "raise" THEN Raise("RuntimeError") ELSE r

\* self.mcp after config_mcp: a path is replaced by what was loaded from it
mcp_after(source) ==
    IF source.kind = "path" /\ ~FalsyPath(source)
            /\ load_mcp_from_yaml(source).kind = "ok"
    THEN Loaded(load_mcp_from_yaml(source).value, source)
    ELSE source

ManagerSources ==
    {NoSource} \cup {DictSource(d) : d \in DictSources} \cup PathSources

\* --------------------------------------------- agents/mozichem_agent.py
\* the two tools every agent gets
multiply == [origin |-> "builtin", name |-> "multiply", server |-> 0]
add == [origin |-> "builtin", name |-> "add", server |-> 0]

\* langchain's init_chat_model(model, model_provider=..., ...): with no
\* provider given it infers one from the model name
InferredProvider(model) ==
    IF model = "gpt-4-mini" THEN "openai" ELSE "anthropic"

init_chat_model(model, model_provider, temperature, max_tokens) ==
    [model |-> model,
     model_provider |-> IF model_provider = Absent
                        THEN InferredProvider(model) ELSE model_provider,
     temperature |-> temperature,
     max_tokens |-> max_tokens]

\* MoziChemAgent.init_llm: reads _model_name, _temperature and _max_tokens
\* of the instance; no provider is handed to init_chat_model
init_llm(model_name, temperature, max_tokens) ==
    init_chat_model(model_name, Absent, temperature, max_tokens)

\* truthiness of an mcp_source (None and {} are falsy)
Truthy(source) == source.kind = "dict" /\ DOMAIN source.d # {}

\* the dict comprehension of adapt_mcp for one model class
DumpOf(mcp_, cls, transport) ==
    LET names == {n \in DOMAIN mcp_ :
                     mcp_[n].cls = cls /\ mcp_[n].transport = transport}
    IN  [n \in names |-> model_dump(mcp_[n])]

\* MoziChemAgent.adapt_mcp: the two transport dicts, or the RuntimeError
adapt_mcp(mcp_source) ==
    IF Truthy(mcp_source)
    THEN LET r == config_mcp(mcp_source)
         IN  IF r.kind = "raise"
             THEN Raise("RuntimeError")
             ELSE Return(
                 [mcp_stdio_dict |-> DumpOf(r.value, "stdioMCP", "stdio"),
                  mcp_streamable_http_dict |->
                      DumpOf(r.value, "streamableHttpMCP",
                             "streamable_http")])
    ELSE Return([mcp_stdio_dict |-> EmptyDict,
                 mcp_streamable_http_dict |-> EmptyDict])

\* MultiServerMCPClient(mcp_feed)
MultiServerMCPClient(mcp_feed) == [cls |-> "client", connections |-> mcp_feed]
NoClient == [cls |-> None, connections |-> EmptyDict]

\* MoziChemAgent.create_client
create_client(mcp_stdio_dict, mcp_streamable_http_dict) ==
    IF DOMAIN mcp_stdio_dict = {} /\ DOMAIN mcp_streamable_http_dict = {}
    THEN MultiServerMCPClient(mcp_stdio_dict @@ mcp_streamable_http_dict)
    ELSE NoClient

\* client.get_tools(): the tools of every connection, in key order
RECURSIVE get_tools_of(_)
get_tools_of(names) ==
    IF names = {} THEN <<>>
    ELSE <<[origin |-> "mcp", name |-> "tool", server |-> Min(names)]>>
         \o get_tools_of(names \ {Min(names)})

get_tools(client) == get_tools_of(DOMAIN client.connections)

\* dict.get(key, default)
Get(dict, key, default) == IF key \in DOMAIN dict THEN dict[key] ELSE default

\* MoziChemAgent.__init__: kw is the **kwargs dict (it holds the caller's
\* model_provider beside temperature and max_tokens)
MoziChemAgent(model_name, agent_name, agent_prompt, mcp_source, memory_mode, kw) ==
    LET temperature == Get(kw, "temperature", 0)
        max_tokens == Get(kw, "max_tokens", 2048)
        adapted == adapt_mcp(mcp_source)
    IN  IF adapted.kind = "raise"
        THEN Raise("RuntimeError")
        ELSE Return(
            [llm |-> init_llm(model_name, temperature, max_tokens),
             agent_name |-> agent_name,
             agent_prompt |-> agent_prompt,
             memory_mode |-> memory_mode,
             mcp_stdio_dict |-> adapted.value.mcp_stdio_dict,
             mcp_streamable_http_dict |->
                 adapted.value.mcp_streamable_http_dict,
             client |-> create_client(
                 adapted.value.mcp_stdio_dict,
                 adapted.value.mcp_streamable_http_dict)])

\* langgraph's MemorySaver(): a checkpointer that holds nothing yet; its
\* storage gives, for a thread id, the turns checkpointed under it
MemorySaver == [cls |-> "MemorySaver", storage |-> EmptyDict]
NoCheckpointer == [cls |-> None]

\* MoziChemAgent.build_agent
build_agent(self) ==
    [model |-> self.llm,
     tools |-> IF self.client.cls # None
               THEN get_tools(self.client) \o <<multiply, add>>
               ELSE <<multiply, add>>,
     prompt |-> self.agent_prompt,
     checkpointer |-> IF self.memory_mode THEN MemorySaver ELSE NoCheckpointer]

\* ------------------------------------------------------- agents/main.py
\* create_agent(model_name, agent_name, agent_prompt, mcp_source,
\* memory_mode, **kwargs).  Returns the instance together with the agent.
create_agent(model_name, agent_name, agent_prompt, mcp_source, memory_mode, kw) ==
    LET made == MoziChemAgent(model_name, agent_name, agent_prompt,
                              mcp_source, memory_mode, kw)
    IN  IF made.kind = "raise"
        THEN Raise("RuntimeError")
        ELSE Return([instance |-> made.value,
                     agent |-> build_agent(made.value)])

\* ----------------------------------------------------------- api/main.py
DEFAULT_TEMPERATURE == 0
DEFAULT_MAX_TOKENS == 2048

\* the values the configuration requests draw from (temperatures in tenths)
Providers == {"openai", "anthropic"}
ModelNames == {"gpt-4-mini", "claude-3-haiku"}
AgentNames == {"MoziChemAgent"}
Prompts == {"You are a helpful assistant."}
Temperatures == {7}
TokenLimits == {2048}

StdioEntry == [transport |-> "stdio", command |-> "python", url |-> Absent]
StdioNoCommand == [transport |-> "stdio", command |-> Absent, url |-> Absent]
HttpEntry ==
    [transport |-> "streamable_http", command |-> Absent,
     url |-> "http://127.0.0.1:8000/mcp/"]
HttpNoUrl ==
    [transport |-> "streamable_http", command |-> Absent, url |-> Absent]
SseEntry ==
    [transport |-> "sse", command |-> Absent,
     url |-> "http://127.0.0.1:8000/mcp/"]

\* the dict sources the API is configured with
ApiDicts ==
    {(1 :> StdioEntry) @@ (2 :> HttpEntry),
     (1 :> StdioNoCommand),
     (1 :> StdioEntry) @@ (2 :> HttpNoUrl),
     (1 :> HttpEntry) @@ (2 :> SseEntry)}

ApiSources == {NoSource} \cup {DictSource(d) : d \in ApiDicts}

\* a dict restricted to some of its keys
Restrict(dict, keys) == [k \in keys |-> dict[k]]

\* the **kwargs create_api is called with
KwargsChoices ==
    {Restrict([temperature |-> t, max_tokens |-> m], keys) :
        t \in Temperatures, m \in TokenLimits,
        keys \in SUBSET {"temperature", "max_tokens"}}

\* the optional memory_mode argument of create_api
MemoryChoices == {EmptyDict, [memory_mode |-> TRUE], [memory_mode |-> FALSE]}

\* request bodies of POST /agent-config: any subset of the fields.  AgentNames
\* and Prompts hold one value each, so a body that gives agent_name or
\* agent_prompt acts as the body without them; only the latter are listed
AgentConfigBodies ==
    {Restrict([model_provider |-> p, model_name |-> n,
               mcp_source |-> DictSource(d), memory_mode |-> m], keys) :
        p \in Providers, n \in ModelNames, d \in ApiDicts, m \in BOOLEAN,
        keys \in SUBSET {"model_provider", "model_name", "mcp_source",
                         "memory_mode"}}

\* request bodies of POST /llm-config: any subset of the fields
LlmConfigBodies ==
    {Restrict([model_provider |-> p, model_name |-> n, temperature |-> t,
               max_tokens |-> m], keys) :
        p \in Providers, n \in ModelNames, t \in Temperatures,
        m \in TokenLimits,
        keys \in SUBSET {"model_provider", "model_name", "temperature",
                         "max_tokens"}}

\* models/llm.py: AgentConfig(**body).  A field left at its None default is
\* a key missing from the result; memory_mode defaults to False
AgentConfig(body) == body @@ [memory_mode |-> FALSE]

\* models/llm.py: LlmConfig(**body): every field has a non-None default
LlmConfig(body) ==
    body @@ [model_provider |-> "openai", model_name |-> "gpt-4-mini",
             temperature |-> 0, max_tokens |-> 2048]

\* the keyword arguments create_agent receives beside the named ones
WithProvider(kw, model_provider) ==
    [model_provider |-> model_provider] @@ kw

NoAgent == [cls |-> None]
NoInstance == [cls |-> None]
NoResponse == [status_code |-> 0]

ApiIdle ==
    /\ api_pc = "new"
    /\ app_state = EmptyDict
    /\ agent = NoAgent
    /\ closure = EmptyDict
    /\ kwargs = EmptyDict
    /\ MoziChemAgent_ = NoInstance
    /\ http_response = NoResponse

\* create_api(model_provider, model_name, agent_name, agent_prompt,
\*            mcp_source, memory_mode=True, **kwargs)
create_api(model_provider, model_name, agent_name, agent_prompt, mcp_source, memory_given, kw) ==
    LET memory_mode == Get(memory_given, "memory_mode", TRUE)
        made == create_agent(model_name, agent_name, agent_prompt,
                             mcp_source, memory_mode,
                             WithProvider(kw, model_provider))
    IN  /\ api_pc = "new"
        /\ app_state' =
               [temperature |-> Get(kw, "temperature", DEFAULT_TEMPERATURE),
                max_tokens |-> Get(kw, "max_tokens", DEFAULT_MAX_TOKENS),
                model_provider |-> model_provider,
                model_name |-> model_name,
                agent_name |-> agent_name,
                agent_prompt |-> agent_prompt,
                mcp_source |-> mcp_source,
                memory_mode |-> memory_mode]
        /\ closure' =
               [model_provider |-> model_provider,
                model_name |-> model_name,
                agent_name |-> agent_name,
                agent_prompt |-> agent_prompt,
                mcp_source |-> mcp_source,
                memory_mode |-> memory_mode]
        /\ kwargs' = kw
        /\ http_response' = http_response
        /\ IF made.kind = "raise"
           THEN /\ api_pc' = "failed"
                /\ UNCHANGED <<agent, MoziChemAgent_>>
           ELSE /\ api_pc' = "serving"
                /\ agent' = made.value.agent
                /\ MoziChemAgent_' = made.value.instance

\* the tail shared by the handlers: install the agent and answer 200, or
\* answer 500 from the except clause
Answer(endpoint, made) ==
    IF made.kind = "raise"
    THEN /\ http_response' = [status_code |-> 500]
         /\ UNCHANGED <<agent, MoziChemAgent_>>
    ELSE /\ http_response' = [status_code |-> 200]
         /\ agent' = made.value.agent
         /\ MoziChemAgent_' = made.value.instance

\* GET /agent-initialization
agent_initialization ==
    /\ api_pc = "serving"
    /\ Answer("/agent-initialization",
              create_agent(closure.model_name, closure.agent_name,
                           closure.agent_prompt, closure.mcp_source,
                           closure.memory_mode,
                           WithProvider(kwargs, closure.model_provider)))
    /\ UNCHANGED <<api_pc, app_state, closure, kwargs>>

\* POST /agent-config up to "await create_agent(...)": the values the handler
\* has written to the nonlocal names, to kwargs and to app.state, and what
\* the create_agent call it makes with them gives
set_agent_config_sync(body) ==
    LET agent_config == AgentConfig(body)
        updated == [k \in DOMAIN closure |->
                       IF k \in DOMAIN agent_config
                       THEN agent_config[k] ELSE closure[k]]
        temperature == Get(kwargs, "temperature", DEFAULT_TEMPERATURE)
        max_tokens == Get(kwargs, "max_tokens", DEFAULT_MAX_TOKENS)
        kw == [temperature |-> temperature, max_tokens |-> max_tokens]
    IN  [closure |-> updated,
         kwargs |-> kw,
         app_state |->
             [temperature |-> temperature,
              max_tokens |-> max_tokens,
              model_provider |-> updated.model_provider,
              model_name |-> updated.model_name,
              agent_name |-> updated.agent_name,
              agent_prompt |-> updated.agent_prompt,
              mcp_source |-> updated.mcp_source,
              memory_mode |-> updated.memory_mode],
         made |-> create_agent(updated.model_name, updated.agent_name,
                               updated.agent_prompt, updated.mcp_source,
                               updated.memory_mode,
                               WithProvider(kw, updated.model_provider))]

\* POST /agent-config
set_agent_config(body) ==
    LET sync == set_agent_config_sync(body)
    IN  /\ api_pc = "serving"
        /\ closure' = sync.closure
        /\ kwargs' = sync.kwargs
        /\ app_state' = sync.app_state
        /\ Answer("/agent-config", sync.made)
        /\ UNCHANGED api_pc

\* the validation of one value of POST /mcp-config
validate_entry(value) ==
    IF value.transport = "stdio"
    THEN stdioMCP(value)
    ELSE IF value.transport = "streamable_http"
    THEN streamableHttpMCP(value)
    ELSE Raise("ValueError")

\* the validation loop leaving out the values that fail, keeping the others
RECURSIVE validate_loop_keeps_valid(_, _, _)
validate_loop_keeps_valid(mcp_config, todo, validated_config) ==
    IF todo = {}
    THEN Return(validated_config)
    ELSE LET key == Min(todo)
             r == validate_entry(mcp_config[key])
         IN  validate_loop_keeps_valid(
                 mcp_config, todo \ {key},
                 IF r.kind = "raise"
                 THEN validated_config
                 ELSE (key :> model_dump(r.value)) @@ validated_config)

\* the validation loop of POST /mcp-config
RECURSIVE validate_loop(_, _, _)
validate_loop(mcp_config, todo, validated_config) ==
    IF todo = {}
    THEN Return(validated_config)
    ELSE LET key == Min(todo)
             r == validate_entry(mcp_config[key])
         IN  IF r.kind = "raise"
             THEN r
             ELSE validate_loop(mcp_config, todo \ {key},
                                (key :> model_dump(r.value))
                                    @@ validated_config)

\* POST /mcp-config up to "await create_agent(...)": a value that fails its
\* validation raises before anything is written
set_mcp_config_sync(mcp_config) ==
    LET validated == validate_loop(mcp_config, DOMAIN mcp_config, EmptyDict)
        mcp_source == DictSource(validated.value)
    IN  IF validated.kind = "raise"
        THEN [closure |-> closure, kwargs |-> kwargs,
              app_state |-> app_state, made |-> validated]
        ELSE [closure |-> closure,
              kwargs |-> kwargs,
              app_state |-> [app_state EXCEPT !.mcp_source = mcp_source],
              made |-> create_agent(app_state.model_name,
                                    app_state.agent_name,
                                    app_state.agent_prompt,
                                    mcp_source,
                                    app_state.memory_mode,
                                    WithProvider(kwargs,
                                                 app_state.model_provider))]

\* POST /mcp-config
set_mcp_config(mcp_config) ==
    LET sync == set_mcp_config_sync(mcp_config)
    IN  /\ api_pc = "serving"
        /\ app_state' = sync.app_state
        /\ Answer("/mcp-config", sync.made)
        /\ UNCHANGED <<api_pc, closure, kwargs>>

\* POST /llm-config up to "await create_agent(...)".  "is not None" is the
\* presence of the key in the parsed body; model_provider and model_name
\* are locals of the handler
set_llm_config_sync(body) ==
    LET llm_config == LlmConfig(body)
        given(k) == k \in DOMAIN llm_config
        model_provider == IF given("model_provider")
                          THEN llm_config.model_provider
                          ELSE app_state.model_provider
        model_name == IF given("model_name")
                      THEN llm_config.model_name
                      ELSE app_state.model_name
        kw == Restrict(llm_config,
                       {"temperature", "max_tokens"} \cap DOMAIN llm_config)
                  @@ kwargs
    IN  [closure |-> closure,
         kwargs |-> kw,
         app_state |->
             [app_state EXCEPT
                 !.model_provider = model_provider,
                 !.model_name = model_name,
                 !.temperature = IF given("temperature")
                                 THEN llm_config.temperature ELSE @,
                 !.max_tokens = IF given("max_tokens")
                                THEN llm_config.max_tokens ELSE @],
         made |-> create_agent(model_name, closure.agent_name,
                               closure.agent_prompt, closure.mcp_source,
                               closure.memory_mode,
                               WithProvider(kw, model_provider))]

\* POST /llm-config
set_llm_config(body) ==
    LET sync == set_llm_config_sync(body)
    IN  /\ api_pc = "serving"
        /\ app_state' = sync.app_state
        /\ kwargs' = sync.kwargs
        /\ Answer("/llm-config", sync.made)
        /\ UNCHANGED <<api_pc, closure>>

\* ------------------------- api/main.py: the handlers, await by await
\* a reconfiguration handler runs without interruption up to its
\* "await create_agent(...)".  MoziChemAgent.__init__ runs inside that call
\* before anything is awaited, so a source that fails validation raises at
\* once and the handler answers 500; otherwise the handler is suspended in
\* build_agent with the agent being built from the arguments of the call
NoBuild == [instance |-> NoInstance, agent |-> NoAgent]

Suspended == {i \in DOMAIN in_flight : in_flight[i].status = "suspended"}

begin_request(endpoint, sync) ==
    /\ api_pc = "serving"
    /\ Len(in_flight) < MaxRequests
    /\ closure' = sync.closure
    /\ kwargs' = sync.kwargs
    /\ app_state' = sync.app_state
    /\ IF sync.made.kind = "raise"
       THEN /\ http_response' = [status_code |-> 500]
            /\ in_flight' =
                   Append(in_flight,
                          [endpoint |-> endpoint, status |-> "completed",
                           status_code |-> 500, overlapped |-> FALSE,
                           made |-> NoBuild])
       ELSE /\ http_response' = http_response
            /\ in_flight' =
                   Append([i \in DOMAIN in_flight |->
                              IF i \in Suspended
                              THEN [in_flight[i] EXCEPT !.overlapped = TRUE]
                              ELSE in_flight[i]],
                          [endpoint |-> endpoint, status |-> "suspended",
                           status_code |-> 0,
                           overlapped |-> Suspended # {},
                           made |-> sync.made.value])
    /\ UNCHANGED <<api_pc, agent, MoziChemAgent_>>

\* the handler resumes: "app.state.agent = <the awaited agent>" and the
\* JSONResponse with status 200
complete_request(i) ==
    /\ i \in Suspended
    /\ agent' = in_flight[i].made.agent
    /\ MoziChemAgent_' = in_flight[i].made.instance
    /\ http_response' = [status_code |-> 200]
    /\ in_flight' = [in_flight EXCEPT ![i].status = "completed",
                                      ![i].status_code = 200]
    /\ UNCHANGED <<api_pc, app_state, closure, kwargs>>

\* ------------------------------------------------ memory/config_memory.py
\* generate_thread_id(): the n-th uuid4 string
generate_thread_id(n) == "uuid4-" \o ToString(n)

\* ---------------------------------------------- utils/message_manager.py
\* the messages an agent run emits: type is the langchain class (AIMessage,
\* ToolMessage, HumanMessage, SystemMessage); only an AIMessage has the
\* usage_metadata attribute
NoneUsage == [kind |-> "none"]
UsageMetadata == [kind |-> "dict",
                  d |-> [input_tokens |-> 11, output_tokens |-> 5]]
Contents == {"a", "b"}
Messages ==
    [type : {"ai"}, content : Contents,
     usage_metadata : {NoneUsage, UsageMetadata}]
    \cup [type : {"tool", "human", "system"}, content : {"a"},
          usage_metadata : {NoneUsage}]

NoAgentMessage == [type |-> None]

\* agent_message_analyzer(message): None for the ignored classes, else the
\* AgentMessage; response_metadata is a dict, so both getattr calls give 0
agent_message_analyzer(message) ==
    IF message.type \in {"human", "system"}
    THEN NoAgentMessage
    ELSE [type |-> IF message.type = "tool" THEN "tool" ELSE "assistant",
          content |-> message.content,
          input_tokens |-> 0,
          output_tokens |-> 0]

\* message_token_counter(message): every exception of the body leaves as
\* HTTPException(500)
message_token_counter(message) ==
    IF agent_message_analyzer(message) = NoAgentMessage
    THEN Raise("HTTPException")
    ELSE IF message.type # "ai"
    THEN Raise("HTTPException")   \* usage_metadata was never bound
    ELSE IF message.usage_metadata # NoneUsage
    THEN Return([input_tokens |->
                     Get(message.usage_metadata.d, "input_tokens", -1),
                 output_tokens |->
                     Get(message.usage_metadata.d, "output_tokens", -1)])
    ELSE Return([input_tokens |-> -1, output_tokens |-> -1])

\* ------------------------------------------------ api/main.py: chat turns
DEFAULT_INPUT_TOKENS == -1
DEFAULT_OUTPUT_TOKENS == -1

\* models/chat.py: ChatMessage(...); messages defaults to the empty list
ChatMessage(role, content, thread_id, response_time, messages, input_tokens, output_tokens) ==
    [role |-> role, content |-> content, thread_id |-> thread_id,
     response_time |-> response_time, messages |-> messages,
     input_tokens |-> input_tokens, output_tokens |-> output_tokens]

\* the thread ids a request may carry: none, the empty string, a real one
RequestThreads == {None, "", "thread-1"}

\* lists of at most n messages
MessageLists(n) == UNION {[1..k -> Messages] : k \in 0..n}

\* what agent.ainvoke may do: raise, or return a value that is a dict or
\* not, whose "messages" is the given list (empty when missing)
AinvokeOutcomes ==
    {Raise("agent failed")}
    \cup {Return([is_dict |-> FALSE, messages |-> <<>>])}
    \cup {Return([is_dict |-> TRUE, messages |-> m]) :
             m \in MessageLists(MaxMessages)}

\* one chunk of agent.astream(..., stream_mode="updates"): not a dict, or
\* the update of one node with its list of at most n messages
NotADict == [is_dict |-> FALSE, messages |-> <<>>]
Chunks(n) == {[is_dict |-> TRUE, messages |-> m] : m \in MessageLists(n)}

\* the chunk sequences the handler may consume: at most k chunks carrying at
\* most n messages together; the handler returns at a chunk that is not a
\* dict, so such a chunk is the last one consumed
RECURSIVE ChunkSeqs(_, _)
ChunkSeqs(k, n) ==
    IF k = 0
    THEN {<<>>}
    ELSE {<<>>, <<NotADict>>}
         \cup UNION {{<<c>> \o rest :
                         rest \in ChunkSeqs(k - 1, n - Len(c.messages))} :
                     c \in Chunks(n)}

\* what agent.astream may do: yield the chunks, then end or raise
AstreamOutcomes ==
    {[chunks |-> c, raises |-> r] :
        c \in ChunkSeqs(MaxChunks, MaxMessages), r \in BOOLEAN}

\* "if not thread_id": None and the empty string are falsy
Falsy(thread_id) == thread_id \in {None, ""}

\* the thread id the handler works with
thread_id_of(request) ==
    IF Falsy(request.thread_id)
    THEN generate_thread_id(threads_generated + 1)
    ELSE request.thread_id

\* the except clause answering without the thread id of the turn
chat_except_no_thread(thread_id, e) ==
    ChatMessage("assistant", "Failed to process user message: " \o e,
                None, None, <<>>,
                DEFAULT_INPUT_TOKENS, DEFAULT_OUTPUT_TOKENS)

\* the except clause answering with zero token counts
chat_except_zero_tokens(thread_id, e) ==
    ChatMessage("assistant", "Failed to process user message: " \o e,
                thread_id, None, <<>>, 0, 0)

\* the except clause of both chat handlers
chat_except(thread_id, e) ==
    ChatMessage("assistant", "Failed to process user message: " \o e,
                thread_id, None, <<>>,
                DEFAULT_INPUT_TOKENS, DEFAULT_OUTPUT_TOKENS)

\* the answer built from the final message list (the branch shared by both
\* handlers once messages is a non-empty list)
main_response(thread_id, messages, counted) ==
    IF counted.kind = "raise"
    THEN chat_except(thread_id, "500: Failed to count tokens")
    ELSE ChatMessage("assistant", messages[Len(messages)].content,
                     thread_id, "elapsed", messages,
                     counted.value.input_tokens,
                     counted.value.output_tokens)

\* the try block of user_agent_chat after the agent answered
chat_response_of(thread_id, outcome) ==
    IF outcome.kind = "raise"
    THEN chat_except(thread_id, outcome.exc)
    ELSE IF ~outcome.value.is_dict
    THEN ChatMessage("assistant",
                     "Agent response is not a valid dictionary.",
                     thread_id, "elapsed", <<>>,
                     DEFAULT_INPUT_TOKENS, DEFAULT_OUTPUT_TOKENS)
    ELSE IF outcome.value.messages = <<>>
    THEN ChatMessage("assistant", "Agent did not return any messages.",
                     thread_id, "elapsed", <<>>,
                     DEFAULT_INPUT_TOKENS, DEFAULT_OUTPUT_TOKENS)
    ELSE LET messages == outcome.value.messages
         IN  main_response(thread_id, messages,
                           message_token_counter(messages[Len(messages)]))

NotCalled == [kind |-> "not called"]

\* the message_token_counter call of a turn, if the turn reaches it
counted_of(final) ==
    IF final = <<>> THEN NotCalled
    ELSE message_token_counter(final[Len(final)])

\* the agent after a run on thread_id that completed: its checkpointer, if
\* it has one, holds one more turn of the thread
checkpointed(agent_, thread_id) ==
    IF agent_.checkpointer.cls = None
    THEN agent_
    ELSE [agent_ EXCEPT !.checkpointer.storage =
             (thread_id :> Get(@, thread_id, 0) + 1) @@ @]

\* POST /chat
user_agent_chat ==
    /\ chat_pc = "pending"
    /\ chat_request.endpoint = "/chat"
    /\ LET thread_id == thread_id_of(chat_request)
       IN  /\ threads_generated' =
                  IF Falsy(chat_request.thread_id)
                  THEN threads_generated + 1 ELSE threads_generated
           /\ IF agent = NoAgent
              THEN /\ chat_response' =
                          ChatMessage("assistant",
                                      "MoziChem agent is not created yet.",
                                      thread_id, None, <<>>,
                                      DEFAULT_INPUT_TOKENS,
                                      DEFAULT_OUTPUT_TOKENS)
                   /\ UNCHANGED <<agent, agent_output, runnable_config,
                                  token_metadata>>
              ELSE \E outcome \in AinvokeOutcomes :
                     /\ agent_output' = outcome
                     /\ agent' = IF outcome.kind = "ok"
                                 THEN checkpointed(agent, thread_id)
                                 ELSE agent
                     /\ runnable_config' = [thread_id |-> thread_id]
                     /\ token_metadata' =
                            IF outcome.kind = "ok" /\ outcome.value.is_dict
                            THEN counted_of(outcome.value.messages)
                            ELSE NotCalled
                     /\ chat_response' = chat_response_of(thread_id, outcome)
    /\ chat_pc' = "done"
    /\ UNCHANGED <<chat_request, websocket_clients, ws_sent>>

\* broadcast_agent_log(log): send to every client of the snapshot todo, in
\* order; a send to a socket of broken raises and the client is removed.
\* acc holds the client set and the sends made so far
RECURSIVE broadcast_agent_log(_, _, _, _)
broadcast_agent_log(todo, broken, log, acc) ==
    IF todo = {}
    THEN acc
    ELSE LET ws == Min(todo)
         IN  broadcast_agent_log(
                 todo \ {ws}, broken, log,
                 IF ws \in broken
                 THEN [acc EXCEPT !.clients = @ \ {ws}]
                 ELSE [acc EXCEPT !.sent =
                          Append(@, [client |-> ws, message |-> log])])

\* "for message in messages" of user_agent_chat_stream
RECURSIVE broadcast_messages(_, _, _)
broadcast_messages(messages, broken, acc) ==
    IF messages = <<>>
    THEN acc
    ELSE LET agent_message == agent_message_analyzer(Head(messages))
         IN  broadcast_messages(
                 Tail(messages), broken,
                 IF agent_message # NoAgentMessage
                 THEN broadcast_agent_log(acc.clients, broken,
                                          agent_message, acc)
                 ELSE acc)

\* "async for chunk in agent.astream(...)": acc also tells whether a
\* non-dict chunk ended the handler (early) and whether the name messages
\* was bound, and to what
RECURSIVE stream_loop(_, _, _)
stream_loop(chunks, broken, acc) ==
    IF chunks = <<>>
    THEN acc
    ELSE LET chunk == Head(chunks)
         IN  IF ~chunk.is_dict
             THEN [acc EXCEPT !.early = TRUE]
             ELSE stream_loop(
                      Tail(chunks), broken,
                      broadcast_messages(
                          chunk.messages, broken,
                          [acc EXCEPT !.bound = TRUE,
                                      !.messages = chunk.messages]))

\* the answer of user_agent_chat_stream once the stream was consumed
stream_response_of(thread_id, outcome, run) ==
    IF run.early
    THEN ChatMessage("assistant",
                     "Agent response is not a valid dictionary.",
                     thread_id, None, <<>>,
                     DEFAULT_INPUT_TOKENS, DEFAULT_OUTPUT_TOKENS)
    ELSE IF outcome.raises
    THEN chat_except(thread_id, "agent failed")
    ELSE IF ~run.bound
    THEN chat_except(thread_id, "UnboundLocalError")
    ELSE IF run.messages = <<>>
    THEN ChatMessage("assistant",
                     "Agent response is not a list of messages.",
                     thread_id, "elapsed", <<>>,
                     DEFAULT_INPUT_TOKENS, DEFAULT_OUTPUT_TOKENS)
    ELSE main_response(thread_id, run.messages,
                       message_token_counter(
                           run.messages[Len(run.messages)]))

\* POST /chat-stream
user_agent_chat_stream ==
    /\ chat_pc = "pending"
    /\ chat_request.endpoint = "/chat-stream"
    /\ LET thread_id == thread_id_of(chat_request)
       IN  /\ threads_generated' =
                  IF Falsy(chat_request.thread_id)
                  THEN threads_generated + 1 ELSE threads_generated
           /\ IF agent = NoAgent
              THEN /\ chat_response' =
                          ChatMessage("assistant",
                                      "MoziChem agent is not created yet.",
                                      thread_id, None, <<>>,
                                      DEFAULT_INPUT_TOKENS,
                                      DEFAULT_OUTPUT_TOKENS)
                   /\ UNCHANGED <<agent, agent_output, runnable_config,
                                  token_metadata, websocket_clients,
                                  ws_sent>>
              ELSE \E outcome \in AstreamOutcomes,
                      broken \in SUBSET websocket_clients :
                     LET run == stream_loop(
                                    outcome.chunks, broken,
                                    [early |-> FALSE, bound |-> FALSE,
                                     messages |-> <<>>,
                                     clients |-> websocket_clients,
                                     sent |-> <<>>])
                     IN  /\ agent_output' = outcome
                         /\ agent' = IF ~outcome.raises /\ ~run.early
                                     THEN checkpointed(agent, thread_id)
                                     ELSE agent
                         /\ runnable_config' = [thread_id |-> thread_id]
                         /\ token_metadata' =
                                IF ~run.early /\ ~outcome.raises /\ run.bound
                                THEN counted_of(run.messages)
                                ELSE NotCalled
                         /\ websocket_clients' = run.clients
                         /\ ws_sent' = run.sent
                         /\ chat_response' =
                                stream_response_of(thread_id, outcome, run)
    /\ chat_pc' = "done"
    /\ UNCHANGED chat_request

\* /ws: a client connects (accept, then add to the set)
websocket_connect(ws) ==
    /\ chat_pc = "idle"
    /\ ws \notin websocket_clients
    /\ websocket_clients' = websocket_clients \cup {ws}
    /\ UNCHANGED <<chat_pc, chat_request, agent_output, runnable_config,
                   token_metadata, chat_response, threads_generated, ws_sent>>

\* /ws: receive_text raises on disconnect and the finally clause removes
\* the client
websocket_disconnect(ws) ==
    /\ chat_pc = "idle"
    /\ ws \in websocket_clients
    /\ websocket_clients' = websocket_clients \ {ws}
    /\ UNCHANGED <<chat_pc, chat_request, agent_output, runnable_config,
                   token_metadata, chat_response, threads_generated, ws_sent>>

\* ------------------ api/main.py: /ws and /chat-stream, await by await
NoBroadcast == [logs |-> <<>>, todo |-> {}, sending |-> 0, fresh |-> TRUE]

\* /ws: "await websocket.accept()" and "websocket_clients.add(websocket)"
ws_accept(ws) ==
    /\ ws_peer[ws] = "none"
    /\ ws_peer' = [ws_peer EXCEPT ![ws] = "open"]
    /\ websocket_clients' = websocket_clients \cup {ws}
    /\ UNCHANGED <<chat_pc, chat_request, agent_output, runnable_config,
                   token_metadata, chat_response, threads_generated, ws_sent,
                   broadcast>>

\* the peer of an open websocket goes away while its handler is suspended
\* in receive_text
ws_peer_closes(ws) ==
    /\ ws_peer[ws] = "open"
    /\ ws_peer' = [ws_peer EXCEPT ![ws] = "closing"]
    /\ UNCHANGED <<chatVars, broadcast>>

\* /ws: receive_text raises, "except Exception: pass", and the finally
\* clause runs "websocket_clients.remove(websocket)": set.remove raises
\* KeyError when the websocket is not in the set
ws_finally(ws) ==
    /\ ws_peer[ws] = "closing"
    /\ IF ws \in websocket_clients
       THEN /\ websocket_clients' = websocket_clients \ {ws}
            /\ ws_peer' = [ws_peer EXCEPT ![ws] = "ended"]
       ELSE /\ websocket_clients' = websocket_clients
            /\ ws_peer' = [ws_peer EXCEPT ![ws] = "failed"]
    /\ UNCHANGED <<chat_pc, chat_request, agent_output, runnable_config,
                   token_metadata, chat_response, threads_generated, ws_sent,
                   broadcast>>

\* the agent messages user_agent_chat_stream broadcasts for a list of
\* messages, and for the chunks it consumes, in order
RECURSIVE logs_of_messages(_)
logs_of_messages(messages) ==
    IF messages = <<>>
    THEN <<>>
    ELSE LET agent_message == agent_message_analyzer(Head(messages))
         IN  (IF agent_message # NoAgentMessage
              THEN <<agent_message>> ELSE <<>>)
             \o logs_of_messages(Tail(messages))

RECURSIVE logs_of_chunks(_)
logs_of_chunks(chunks) ==
    IF chunks = <<>> \/ ~Head(chunks).is_dict
    THEN <<>>
    ELSE logs_of_messages(Head(chunks).messages)
         \o logs_of_chunks(Tail(chunks))

\* POST /chat-stream up to its first broadcast: the thread id is settled
\* and the agent is streamed with it
stream_begin ==
    /\ chat_pc = "pending"
    /\ chat_request.endpoint = "/chat-stream"
    /\ agent # NoAgent
    /\ threads_generated' =
           IF Falsy(chat_request.thread_id)
           THEN threads_generated + 1 ELSE threads_generated
    /\ runnable_config' = [thread_id |-> thread_id_of(chat_request)]
    /\ \E outcome \in AstreamOutcomes :
          /\ agent_output' = outcome
          /\ broadcast' = [NoBroadcast EXCEPT
                               !.logs = logs_of_chunks(outcome.chunks)]
    /\ chat_pc' = "streaming"
    /\ UNCHANGED <<chat_request, token_metadata, chat_response,
                   websocket_clients, ws_sent, ws_peer>>

\* broadcast_agent_log: "for ws in list(websocket_clients)" takes the
\* snapshot for a new message; the loop calls send_text for its next client
\* and is suspended there, or ends when no client is left
broadcast_next ==
    /\ chat_pc = "streaming"
    /\ broadcast.sending = 0
    /\ broadcast.logs # <<>>
    /\ LET todo == IF broadcast.fresh
                   THEN websocket_clients ELSE broadcast.todo
       IN  broadcast' =
               IF todo = {}
               THEN [NoBroadcast EXCEPT !.logs = Tail(broadcast.logs)]
               ELSE [logs |-> broadcast.logs,
                     todo |-> todo \ {Min(todo)},
                     sending |-> Min(todo),
                     fresh |-> FALSE]
    /\ UNCHANGED <<chatVars, ws_peer>>

\* what send_text may do for a peer: it succeeds on an open connection,
\* fails once the handler of the websocket is over, and may do either while
\* the peer is going away
SendSucceeds(peer) ==
    IF peer = "open" THEN {TRUE}
    ELSE IF peer = "closing" THEN {TRUE, FALSE}
    ELSE {FALSE}

\* broadcast_agent_log: the awaited send_text returns, or raises and the
\* except clause runs "websocket_clients.remove(ws)"; a KeyError of that
\* remove leaves the broadcast and reaches the except clause of
\* user_agent_chat_stream
broadcast_sent ==
    /\ chat_pc = "streaming"
    /\ broadcast.sending # 0
    /\ LET ws == broadcast.sending
       IN  \E sent \in SendSucceeds(ws_peer[ws]) :
             IF sent
             THEN /\ ws_sent' = Append(ws_sent,
                                       [client |-> ws,
                                        message |-> Head(broadcast.logs)])
                  /\ broadcast' = [broadcast EXCEPT !.sending = 0]
                  /\ UNCHANGED <<chat_pc, chat_response, websocket_clients>>
             ELSE IF ws \in websocket_clients
             THEN /\ websocket_clients' = websocket_clients \ {ws}
                  /\ broadcast' = [broadcast EXCEPT !.sending = 0]
                  /\ UNCHANGED <<chat_pc, chat_response, ws_sent>>
             ELSE /\ chat_response' =
                         chat_except(runnable_config.thread_id, "KeyError")
                  /\ chat_pc' = "done"
                  /\ broadcast' = NoBroadcast
                  /\ UNCHANGED <<websocket_clients, ws_sent>>
    /\ UNCHANGED <<chat_request, agent_output, runnable_config,
                   token_metadata, threads_generated, ws_peer>>

\* POST /chat-stream after its last broadcast: the early return, the
\* except clause or the answer built from the last chunk
stream_end ==
    /\ chat_pc = "streaming"
    /\ broadcast.sending = 0
    /\ broadcast.logs = <<>>
    /\ LET run == stream_loop(agent_output.chunks, {},
                              [early |-> FALSE, bound |-> FALSE,
                               messages |-> <<>>, clients |-> {},
                               sent |-> <<>>])
       IN  /\ token_metadata' =
                  IF ~run.early /\ ~agent_output.raises /\ run.bound
                  THEN counted_of(run.messages)
                  ELSE NotCalled
           /\ chat_response' =
                  stream_response_of(runnable_config.thread_id,
                                     agent_output, run)
           /\ agent' = IF ~agent_output.raises /\ ~run.early
                       THEN checkpointed(agent, runnable_config.thread_id)
                       ELSE agent
    /\ chat_pc' = "done"
    /\ broadcast' = NoBroadcast
    /\ UNCHANGED <<chat_request, agent_output, runnable_config,
                   threads_generated, websocket_clients, ws_sent, ws_peer>>

\* ------------------------------------------------------------ environment
NoRequest == [endpoint |-> None, thread_id |-> None]
NoOutput == [kind |-> "none"]
NoConfig == [thread_id |-> None]
NoChatResponse == [role |-> None]

\* a user posts a ChatMessage to /chat or /chat-stream
PostChat(endpoint, thread_id) ==
    /\ chat_pc = "idle"
    /\ Falsy(thread_id) => threads_generated < MaxGenerated
    /\ chat_pc' = "pending"
    /\ chat_request' = [endpoint |-> endpoint, thread_id |-> thread_id]
    /\ UNCHANGED <<agent_output, runnable_config, token_metadata,
                   chat_response, threads_generated, websocket_clients,
                   ws_sent>>

\* the user receives the answer
Deliver ==
    /\ chat_pc = "done"
    /\ chat_pc' = "idle"
    /\ chat_request' = NoRequest
    /\ agent_output' = NoOutput
    /\ runnable_config' = NoConfig
    /\ token_metadata' = NotCalled
    /\ chat_response' = NoChatResponse
    /\ ws_sent' = <<>>
    /\ UNCHANGED <<threads_generated, websocket_clients>>

ChatIdle ==
    /\ chat_pc = "idle"
    /\ chat_request = NoRequest
    /\ agent_output = NoOutput
    /\ runnable_config = NoConfig
    /\ token_metadata = NotCalled
    /\ chat_response = NoChatResponse
    /\ threads_generated = 0
    /\ websocket_clients = {}
    /\ ws_sent = <<>>

McpIdle ==
    /\ mcp = NoSource
    /\ mcp_result = NotCalled

\* no request is suspended at an await
StepIdle ==
    /\ in_flight = <<>>
    /\ ws_peer = [ws \in 1..MaxSockets |-> "none"]
    /\ broadcast = NoBroadcast
    /\ turns = EmptyDict

\* ---------------------------------------------------------- specifications
\* the configuration endpoints of the API
Init == McpIdle /\ ApiIdle /\ ChatIdle /\ StepIdle

CreateApi ==
    /\ \E p \in Providers, n \in ModelNames, a \in AgentNames, q \in Prompts,
          src \in ApiSources, m \in MemoryChoices, kw \in KwargsChoices :
          create_api(p, n, a, q, src, m, kw)
    /\ UNCHANGED <<mcpVars, chatVars, stepVars>>

AgentInitialization ==
    agent_initialization /\ UNCHANGED <<mcpVars, chatVars, stepVars>>

SetAgentConfig ==
    /\ \E body \in AgentConfigBodies : set_agent_config(body)
    /\ UNCHANGED <<mcpVars, chatVars, stepVars>>

SetMcpConfig ==
    /\ \E d \in ApiDicts : set_mcp_config(d)
    /\ UNCHANGED <<mcpVars, chatVars, stepVars>>

SetLlmConfig ==
    /\ \E body \in LlmConfigBodies : set_llm_config(body)
    /\ UNCHANGED <<mcpVars, chatVars, stepVars>>

Next ==
    \/ CreateApi
    \/ AgentInitialization
    \/ SetAgentConfig
    \/ SetMcpConfig
    \/ SetLlmConfig

Spec == Init /\ [][Next]_vars

\* the same endpoints, every request completing with status 200
Succeeds == http_response'.status_code = 200

NextSuccessful ==
    \/ CreateApi
    \/ AgentInitialization /\ Succeeds
    \/ SetAgentConfig /\ Succeeds
    \/ SetMcpConfig /\ Succeeds
    \/ SetLlmConfig /\ Succeeds

SpecSuccessful == Init /\ [][NextSuccessful]_vars

\* the API of the repository's example launch, without an MCP source
ExampleAgent ==
    create_agent("gpt-4-mini", "MoziChemAgent",
                 "You are a helpful assistant.", NoSource, TRUE,
                 [model_provider |-> "openai"])

ExampleConfig ==
    [model_provider |-> "openai",
     model_name |-> "gpt-4-mini",
     agent_name |-> "MoziChemAgent",
     agent_prompt |-> "You are a helpful assistant.",
     mcp_source |-> NoSource,
     memory_mode |-> TRUE]

ApiExample ==
    /\ api_pc = "serving"
    /\ app_state = [temperature |-> DEFAULT_TEMPERATURE,
                    max_tokens |-> DEFAULT_MAX_TOKENS] @@ ExampleConfig
    /\ closure = ExampleConfig
    /\ kwargs = EmptyDict
    /\ agent = ExampleAgent.value.agent
    /\ MoziChemAgent_ = ExampleAgent.value.instance
    /\ http_response = NoResponse

\* the API mozichem_chat launches when its memory_mode is left at the
\* default: the same, without memory
DefaultAgent ==
    create_agent("gpt-4-mini", "MoziChemAgent",
                 "You are a helpful assistant.", NoSource, FALSE,
                 [model_provider |-> "openai"])

DefaultConfig == [ExampleConfig EXCEPT !.memory_mode = FALSE]

ApiDefault ==
    /\ api_pc = "serving"
    /\ app_state = [temperature |-> DEFAULT_TEMPERATURE,
                    max_tokens |-> DEFAULT_MAX_TOKENS] @@ DefaultConfig
    /\ closure = DefaultConfig
    /\ kwargs = EmptyDict
    /\ agent = DefaultAgent.value.agent
    /\ MoziChemAgent_ = DefaultAgent.value.instance
    /\ http_response = NoResponse

\* every source, handed to MCPManager(source).config_mcp(); the dict sources
\* are also posted to /mcp-config of the example API
InitMcp ==
    /\ mcp \in ManagerSources
    /\ mcp_result = NotCalled
    /\ ApiExample
    /\ ChatIdle
    /\ StepIdle

CallConfigMcp ==
    /\ mcp_result = NotCalled
    /\ mcp_result' = IF mcp.kind = "path"
                      THEN config_mcp_path(mcp) ELSE config_mcp(mcp)
    /\ mcp' = mcp_after(mcp)
    /\ UNCHANGED <<apiVars, chatVars, stepVars>>

PostMcpConfig ==
    /\ mcp.kind = "dict"
    /\ mcp = DictSource(mcp.d)
    /\ http_response = NoResponse
    /\ set_mcp_config(mcp.d)
    /\ UNCHANGED <<mcpVars, chatVars, stepVars>>

NextMcp == CallConfigMcp \/ PostMcpConfig

SpecMcp == InitMcp /\ [][NextMcp]_vars

\* the chat turns of the API launched without memory
InitChat == McpIdle /\ ApiDefault /\ ChatIdle /\ StepIdle

UserPosts ==
    /\ \E endpoint \in {"/chat", "/chat-stream"},
          thread_id \in RequestThreads : PostChat(endpoint, thread_id)
    /\ UNCHANGED <<mcpVars, apiVars, stepVars>>

UserAgentChat == user_agent_chat /\ UNCHANGED <<mcpVars, configVars, stepVars>>

UserAgentChatStream ==
    user_agent_chat_stream /\ UNCHANGED <<mcpVars, configVars, stepVars>>

WebsocketConnect ==
    /\ \E ws \in 1..MaxClients : websocket_connect(ws)
    /\ UNCHANGED <<mcpVars, apiVars, stepVars>>

WebsocketDisconnect ==
    /\ \E ws \in 1..MaxClients : websocket_disconnect(ws)
    /\ UNCHANGED <<mcpVars, apiVars, stepVars>>

UserReceives == Deliver /\ UNCHANGED <<mcpVars, apiVars, stepVars>>

NextChat ==
    \/ UserPosts
    \/ UserAgentChat
    \/ UserAgentChatStream
    \/ WebsocketConnect
    \/ WebsocketDisconnect
    \/ UserReceives

SpecChat == InitChat /\ [][NextChat]_vars

\* reconfiguration requests that overlap on the example API
InitOverlap == McpIdle /\ ApiExample /\ ChatIdle /\ StepIdle

BeginAgentConfig ==
    /\ \E body \in AgentConfigBodies :
          begin_request("/agent-config", set_agent_config_sync(body))
    /\ UNCHANGED <<mcpVars, chatVars, ws_peer, broadcast, turns>>

BeginMcpConfig ==
    /\ \E d \in ApiDicts :
          begin_request("/mcp-config", set_mcp_config_sync(d))
    /\ UNCHANGED <<mcpVars, chatVars, ws_peer, broadcast, turns>>

BeginLlmConfig ==
    /\ \E body \in LlmConfigBodies :
          begin_request("/llm-config", set_llm_config_sync(body))
    /\ UNCHANGED <<mcpVars, chatVars, ws_peer, broadcast, turns>>

CompleteRequest ==
    /\ \E i \in DOMAIN in_flight : complete_request(i)
    /\ UNCHANGED <<mcpVars, chatVars, ws_peer, broadcast, turns>>

NextOverlap ==
    \/ BeginAgentConfig
    \/ BeginMcpConfig
    \/ BeginLlmConfig
    \/ CompleteRequest

SpecOverlap == InitOverlap /\ [][NextOverlap]_vars

\* /chat-stream turns and /ws handlers on the API launched without memory,
\* await by await
InitWs == McpIdle /\ ApiDefault /\ ChatIdle /\ StepIdle

UserPostsStream ==
    /\ PostChat("/chat-stream", "thread-1")
    /\ UNCHANGED <<mcpVars, apiVars, stepVars>>

StreamBegin == stream_begin /\ UNCHANGED <<mcpVars, apiVars, in_flight, turns>>

BroadcastNext == broadcast_next /\ UNCHANGED <<mcpVars, apiVars, in_flight, turns>>

BroadcastSent == broadcast_sent /\ UNCHANGED <<mcpVars, apiVars, in_flight, turns>>

StreamEnd == stream_end /\ UNCHANGED <<mcpVars, configVars, in_flight, turns>>

WsAccept ==
    /\ \E ws \in 1..MaxSockets : ws_accept(ws)
    /\ UNCHANGED <<mcpVars, apiVars, in_flight, turns>>

WsPeerCloses ==
    /\ \E ws \in 1..MaxSockets : ws_peer_closes(ws)
    /\ UNCHANGED <<mcpVars, apiVars, in_flight, turns>>

WsFinally ==
    /\ \E ws \in 1..MaxSockets : ws_finally(ws)
    /\ UNCHANGED <<mcpVars, apiVars, in_flight, turns>>

NextWs ==
    \/ UserPostsStream
    \/ StreamBegin
    \/ BroadcastNext
    \/ BroadcastSent
    \/ StreamEnd
    \/ UserReceives
    \/ WsAccept
    \/ WsPeerCloses
    \/ WsFinally

SpecWs == InitWs /\ [][NextWs]_vars

\* chat turns and reconfigurations of the example API, which is created
\* with memory_mode=True; POST /agent-config, the one request that can
\* switch the memory mode, is left out
InitMemory == McpIdle /\ ApiExample /\ ChatIdle /\ StepIdle

\* the history after a /chat turn: a run that completed counts for its
\* thread
turns_after ==
    LET thread_id == runnable_config'.thread_id
    IN  IF agent_output'.kind = "ok"
        THEN (thread_id :> Get(turns, thread_id, 0) + 1) @@ turns
        ELSE turns

UserPostsTurn ==
    /\ \A thread_id \in DOMAIN turns : turns[thread_id] < MaxTurns
    /\ \E thread_id \in RequestThreads : PostChat("/chat", thread_id)
    /\ UNCHANGED <<mcpVars, apiVars, stepVars>>

\* the agent raises, or returns at most one message
ShortOutcomes ==
    {outcome \in AinvokeOutcomes :
        outcome.kind = "ok" => Len(outcome.value.messages) <= 1}

ChatTurn ==
    /\ user_agent_chat
    /\ agent_output' \in ShortOutcomes
    /\ turns' = turns_after
    /\ UNCHANGED <<mcpVars, configVars, in_flight, ws_peer, broadcast>>

\* the requests arrive one after the other: a reconfiguration between two
\* turns
BetweenTurns == chat_pc = "idle"

NextMemory ==
    \/ UserPostsTurn
    \/ ChatTurn
    \/ UserReceives
    \/ BetweenTurns /\ AgentInitialization
    \/ BetweenTurns /\ SetMcpConfig
    \/ BetweenTurns /\ SetLlmConfig

SpecMemory == InitMemory /\ [][NextMemory]_vars

\* ------------------------------------------------------------------ claims
Called == mcp_result.kind # "not called"
Posted == http_response # NoResponse

\* an entry that names what its transport needs: the command of a stdio
\* launch, the url of a streamable_http endpoint
WellFormed(entry) ==
    \/ entry.transport = "stdio" /\ entry.command # Absent
    \/ entry.transport = "streamable_http" /\ entry.url # Absent

Unsupported(entry) == entry.transport \notin {"stdio", "streamable_http"}

\* C1: config_mcp on a non-empty dict source whose entries are all stdio or
\* streamable_http with their fields returns a map with exactly the keys of
\* the source, a stdioMCP under each stdio key and a streamableHttpMCP under
\* each streamable_http key.
C1_TypedMap ==
    (/\ Called
     /\ mcp.kind = "dict"
     /\ DOMAIN mcp.d # {}
     /\ \A n \in DOMAIN mcp.d : WellFormed(mcp.d[n]))
    => /\ mcp_result.kind = "ok"
       /\ DOMAIN mcp_result.value = DOMAIN mcp.d
       /\ \A n \in DOMAIN mcp.d :
             mcp_result.value[n].cls =
                 IF mcp.d[n].transport = "stdio"
                 THEN "stdioMCP" ELSE "streamableHttpMCP"

C1_Witness ==
    /\ Called
    /\ mcp.kind = "dict"
    /\ \A n \in DOMAIN mcp.d : WellFormed(mcp.d[n])
    /\ \E n, m \in DOMAIN mcp.d :
          /\ mcp.d[n].transport = "stdio"
          /\ mcp.d[m].transport = "streamable_http"
    /\ mcp_result.kind = "ok"

\* C3: when any entry of the source has a transport other than stdio and
\* streamable_http, or none, config_mcp raises RuntimeError and returns no
\* map, whatever the other entries are.
C3_UnsupportedTransportRaises ==
    (/\ Called
     /\ mcp.kind = "dict"
     /\ \E n \in DOMAIN mcp.d : Unsupported(mcp.d[n]))
    => mcp_result = Raise("RuntimeError")

C3_Witness ==
    /\ Called
    /\ mcp.kind = "dict"
    /\ \E n, m \in DOMAIN mcp.d :
          /\ Unsupported(mcp.d[n])
          /\ WellFormed(mcp.d[m])
    /\ mcp_result = Raise("RuntimeError")

HttpWithoutUrl(entry) ==
    entry.transport = "streamable_http" /\ entry.url = Absent

\* C4: a streamable_http entry without url is rejected: config_mcp raises
\* RuntimeError, and POST /mcp-config answers with an error and leaves the
\* stored MCP source and the agent as they were.
C4_HttpWithoutUrlRejected ==
    (/\ mcp.kind = "dict"
     /\ \E n \in DOMAIN mcp.d : HttpWithoutUrl(mcp.d[n]))
    => /\ Called => mcp_result = Raise("RuntimeError")
       /\ Posted => /\ http_response.status_code = 500
                    /\ app_state.mcp_source = ExampleConfig.mcp_source
                    /\ agent = ExampleAgent.value.agent

C4_Witness ==
    /\ Called
    /\ Posted
    /\ mcp.kind = "dict"
    /\ \E n, m \in DOMAIN mcp.d :
          /\ HttpWithoutUrl(mcp.d[n])
          /\ WellFormed(mcp.d[m])
    /\ mcp_result = Raise("RuntimeError")
    /\ http_response.status_code = 500

StdioWithoutCommand(entry) ==
    entry.transport = "stdio" /\ entry.command = Absent

\* C5: a stdio entry is accepted only if it names the command to launch: a
\* source with a stdio entry without command is rejected by config_mcp and
\* by POST /mcp-config.
C5_StdioWithoutCommandRejected ==
    (/\ mcp.kind = "dict"
     /\ \E n \in DOMAIN mcp.d : StdioWithoutCommand(mcp.d[n]))
    => /\ Called => mcp_result.kind = "raise"
       /\ Posted => http_response.status_code = 500

\* the transports the instance behind the agent in use validated
Validated ==
    DOMAIN MoziChemAgent_.mcp_stdio_dict
        \cup DOMAIN MoziChemAgent_.mcp_streamable_http_dict

\* C2: when the MCP source yields at least one validated transport, one
\* client is created over the union of the validated stdio and
\* streamable_http entries, and the agent's tools are the tools of that
\* client followed by multiply and add.
C2_ClientOverValidatedTransports ==
    (api_pc = "serving" /\ Validated # {})
    => /\ MoziChemAgent_.client =
              MultiServerMCPClient(
                  MoziChemAgent_.mcp_stdio_dict
                      @@ MoziChemAgent_.mcp_streamable_http_dict)
       /\ agent.tools =
              get_tools(MoziChemAgent_.client) \o <<multiply, add>>

\* C10: the chat model of the agent in use is initialised with the
\* model_provider the API was created or last successfully configured with.
C10_AgentUsesGivenProvider ==
    (api_pc = "serving" /\ http_response.status_code # 500)
    => agent.model.model_provider = app_state.model_provider

Done == chat_pc = "done"
Invoked == agent_output # NoOutput

\* the thread id generated in the turn
Generated == generate_thread_id(threads_generated)

AgentRaised ==
    IF chat_request.endpoint = "/chat"
    THEN agent_output.kind = "raise"
    ELSE /\ agent_output.raises
         /\ \A i \in DOMAIN agent_output.chunks :
               agent_output.chunks[i].is_dict

Returned ==
    IF Done /\ chat_request.endpoint = "/chat" /\ agent_output.kind = "ok"
       /\ agent_output.value.is_dict
    THEN agent_output.value.messages
    ELSE <<>>

\* C7: in a /chat turn whose agent returns a dict with a non-empty list of
\* messages, the response has role assistant and the content of the last
\* message of the list.
C7_ContentOfLastMessage ==
    Returned # <<>>
    => /\ chat_response.role = "assistant"
       /\ chat_response.content = Returned[Len(Returned)].content

\* the final message of the turn: the last message that reached the token
\* accounting of either handler
Counted == token_metadata.kind # "not called"

FinalMessage ==
    IF chat_request.endpoint = "/chat"
    THEN agent_output.value.messages[Len(agent_output.value.messages)]
    ELSE LET last == agent_output.chunks[Len(agent_output.chunks)].messages
         IN  last[Len(last)]

\* C8: in a turn whose agent run returned messages, message_token_counter
\* returns a TokenMetadata whatever the type of the final message, and the
\* response carries the usage counts of the final message, or -1 and -1 when
\* it has no usage metadata.
C8_TokenCounts ==
    (Done /\ Counted)
    => /\ token_metadata.kind = "ok"
       /\ IF FinalMessage.usage_metadata = NoneUsage
          THEN /\ chat_response.input_tokens = -1
               /\ chat_response.output_tokens = -1
          ELSE /\ chat_response.input_tokens =
                      FinalMessage.usage_metadata.d.input_tokens
               /\ chat_response.output_tokens =
                      FinalMessage.usage_metadata.d.output_tokens

FailurePrefix == "Failed to process user message:"

StartsWith(text, prefix) ==
    /\ Len(text) >= Len(prefix)
    /\ SubSeq(text, 1, Len(prefix)) = prefix

\* an exception was raised inside the try block of the handler: by the
\* agent, by message_token_counter, or by reading the name messages that no
\* chunk bound
RaisedInTurn ==
    /\ Invoked
    /\ \/ AgentRaised
       \/ token_metadata.kind = "raise"
       \/ /\ chat_request.endpoint = "/chat-stream"
          /\ agent_output.chunks = <<>>

CreatedWithoutMemoryMode ==
    /\ \E p \in Providers, n \in ModelNames, a \in AgentNames, q \in Prompts,
          src \in ApiSources, kw \in KwargsChoices :
          create_api(p, n, a, q, src, EmptyDict, kw)
    /\ api_pc' = "serving"

\* C11: create_api called without a memory_mode argument builds the agent
\* without a checkpointer (memory mode off), and GET /agent-config then
\* reports memory_mode false.
C11_MemoryOffByDefault ==
    [][CreatedWithoutMemoryMode
       => /\ agent'.checkpointer = NoCheckpointer
          /\ app_state'.memory_mode = FALSE]_vars

\* the agent create_agent builds from the configuration app.state reports
BuiltFromAppState ==
    create_agent(app_state.model_name, app_state.agent_name,
                 app_state.agent_prompt, app_state.mcp_source,
                 app_state.memory_mode,
                 [model_provider |-> app_state.model_provider,
                  temperature |-> app_state.temperature,
                  max_tokens |-> app_state.max_tokens])

AgentMatchesAppState ==
    /\ BuiltFromAppState.kind = "ok"
    /\ agent = BuiltFromAppState.value.agent
    /\ MoziChemAgent_ = BuiltFromAppState.value.instance

\* C12: after any sequence of successful requests to POST /agent-config,
\* POST /mcp-config, POST /llm-config and GET /agent-initialization, the
\* agent in use is the one built from the configuration app.state reports
\* (model_name, agent_prompt, mcp_source, memory_mode, temperature,
\* max_tokens).
C12_AgentBuiltFromReportedConfig ==
    api_pc = "serving" => AgentMatchesAppState

\* every request begun has completed, and some of them overlapped
OverlapCompleted ==
    /\ \A i \in DOMAIN in_flight : in_flight[i].status = "completed"
    /\ \E i \in DOMAIN in_flight : in_flight[i].overlapped

\* C13: when two reconfiguration requests overlap, each suspending while
\* its agent is built, then once both have completed the agent in use is the
\* one built from the configuration app.state reports.
C13_OverlapKeepsAgentAndConfigTogether ==
    OverlapCompleted => AgentMatchesAppState

\* the answer of a /chat-stream turn that a KeyError ended
FailedByRemoval ==
    /\ Done
    /\ chat_response.content = "Failed to process user message: KeyError"

\* C14: a websocket client is removed from the client set at most once:
\* whatever the interleaving of a client's disconnect with a broadcast whose
\* send to that client fails, no removal of an absent client is attempted,
\* so neither a /ws handler nor a /chat-stream request fails by it.
C14_ClientRemovedAtMostOnce ==
    /\ \A ws \in 1..MaxSockets : ws_peer[ws] # "failed"
    /\ ~FailedByRemoval

\* a POST /agent-config, /mcp-config or /llm-config request answered 500
ReconfigurationFails ==
    /\ SetAgentConfig \/ SetMcpConfig \/ SetLlmConfig
    /\ http_response'.status_code = 500

\* C15: if a reconfiguration request (POST /agent-config, /mcp-config or
\* /llm-config) fails with status 500, the configuration app.state reports
\* and the agent in use are the same as before the request.
C15_FailedRequestChangesNothing ==
    [][ReconfigurationFails
       => /\ app_state' = app_state
          /\ agent' = agent]_vars

\* an entry POST /mcp-config does not accept: its transport is unknown or
\* missing, or it is a streamable_http entry without the required url
InvalidEntry(entry) == Unsupported(entry) \/ HttpWithoutUrl(entry)

ExampleState ==
    [temperature |-> DEFAULT_TEMPERATURE,
     max_tokens |-> DEFAULT_MAX_TOKENS] @@ ExampleConfig

\* C16: if POST /mcp-config contains any entry whose transport is unknown
\* or whose fields fail validation, the request fails and app.state (its
\* mcp_source in particular) and the agent in use are left unchanged; no
\* valid entry of the same request is stored.
C16_InvalidEntryStoresNothing ==
    (/\ Posted
     /\ mcp.kind = "dict"
     /\ \E n \in DOMAIN mcp.d : InvalidEntry(mcp.d[n]))
    => /\ http_response.status_code = 500
       /\ app_state = ExampleState
       /\ agent = ExampleAgent.value.agent
       /\ MoziChemAgent_ = ExampleAgent.value.instance

C16_Witness ==
    /\ Posted
    /\ mcp.kind = "dict"
    /\ \E n, m \in DOMAIN mcp.d :
          /\ Unsupported(mcp.d[n])
          /\ WellFormed(mcp.d[m])
    /\ http_response.status_code = 500
    /\ app_state.mcp_source = NoSource

\* the fields of app.state that stay as they were in this step
Kept(fields) == \A k \in fields : app_state'[k] = app_state[k]

\* C17: POST /agent-config changes only the settings the request gives:
\* every field omitted from the body (model_provider, model_name,
\* agent_name, agent_prompt, mcp_source, memory_mode) keeps the value it
\* had, and temperature and max_tokens are unchanged.
C17_AgentConfigKeepsOmitted ==
    [][\A body \in AgentConfigBodies :
          set_agent_config(body)
          => /\ Kept({"model_provider", "model_name", "agent_name",
                      "agent_prompt", "mcp_source", "memory_mode"}
                         \ DOMAIN body)
             /\ Kept({"temperature", "max_tokens"})]_vars

\* C18: POST /llm-config changes only the settings the request gives: a
\* field omitted from the body (model_provider, model_name, temperature,
\* max_tokens) keeps the value app.state held before the request.
C18_LlmConfigKeepsOmitted ==
    [][\A body \in LlmConfigBodies :
          set_llm_config(body)
          => Kept({"model_provider", "model_name", "temperature",
                   "max_tokens"} \ DOMAIN body)]_vars

\* the messages of the update chunks the turn consumed, as the agent
\* emitted them
RECURSIVE Emitted(_)
Emitted(chunks) ==
    IF chunks = <<>> \/ ~Head(chunks).is_dict
    THEN <<>>
    ELSE Head(chunks).messages \o Emitted(Tail(chunks))

IsToolOrAssistant(message) == message.type \in {"tool", "ai"}

ToolAndAssistant ==
    SelectSeq(Emitted(agent_output.chunks), IsToolOrAssistant)

\* what was sent to a websocket in this turn, in order
RECURSIVE SentTo(_, _)
SentTo(ws, sent) ==
    IF sent = <<>>
    THEN <<>>
    ELSE (IF Head(sent).client = ws THEN <<Head(sent).message>> ELSE <<>>)
         \o SentTo(ws, Tail(sent))

\* a broadcast log is the log of an emitted message
LogOf(log, message) ==
    /\ log.content = message.content
    /\ log.type = IF message.type = "ai" THEN "assistant" ELSE "tool"

\* logs are the logs of the last Len(logs) of the messages, in order
LogsOfTail(logs, messages) ==
    /\ Len(logs) <= Len(messages)
    /\ \A i \in 1..Len(logs) :
          LogOf(logs[i], messages[Len(messages) - Len(logs) + i])

Connected == {ws \in websocket_clients : ws_peer[ws] = "open"}

\* C19: when a /chat-stream turn returns its response, every websocket
\* client that is connected has been sent the tool and assistant messages
\* of the update chunks, in the order the agent emitted them (all of those
\* emitted since it connected), and nothing else: human and system messages
\* are not broadcast, and no broadcast is pending once the response is
\* returned.
C19_EveryMessageBroadcastInOrder ==
    (Done /\ Invoked)
    => /\ broadcast = NoBroadcast
       /\ \A ws \in Connected :
             LogsOfTail(SentTo(ws, ws_sent), ToolAndAssistant)

\* a chat handler runs the agent, which has a checkpointer
TurnRunsWithMemory ==
    /\ chat_pc = "pending"
    /\ chat_pc' = "done"
    /\ agent_output' # NoOutput
    /\ agent.checkpointer.cls = "MemorySaver"

\* C20: with memory mode on, after any sequence of chat and
\* reconfiguration requests, a chat turn on a thread id is run against the
\* conversation state accumulated by all earlier completed turns on that
\* thread id since the API was created.
C20_TurnSeesEarlierTurns ==
    [][TurnRunsWithMemory
       => Get(agent.checkpointer.storage, runnable_config'.thread_id, 0)
              = Get(turns, runnable_config'.thread_id, 0)]_vars

\* the path the manager was constructed with, if it was constructed with one:
\* self.mcp itself until a load succeeded, its history afterwards
PathGiven ==
    IF mcp.kind = "path" THEN mcp
    ELSE IF "origin" \in DOMAIN mcp THEN mcp.origin
    ELSE NoSource

\* the file at the path holds a YAML mapping
HoldsDict(source) ==
    /\ source.kind = "path"
    /\ source.file.state = "file"
    /\ source.file.doc.root = "mapping"

\* there is no file at the path, or its text is no YAML
NotLoadable(source) ==
    /\ source.kind = "path"
    /\ \/ source.file.state = "missing"
       \/ source.file.doc.root = "malformed"

\* the dict the file at the path contains, as a source of its own
DictOf(source) == safe_load(source.file.doc).value

\* C21 as stated: config_mcp given a path (str or Path) to a YAML file
\* returns what it returns given the dict the file contains, and raises
\* RuntimeError when the file does not exist or cannot be parsed.
C21_PathAsDictAsStated ==
    Called =>
        /\ HoldsDict(PathGiven)
               => mcp_result = config_mcp(DictOf(PathGiven))
        /\ NotLoadable(PathGiven) => mcp_result = Raise("RuntimeError")

\* C21: config_mcp given a non-empty str or any Path returns what it returns
\* given the dict the file contains (the same typed map, or RuntimeError
\* when an entry is rejected), and raises RuntimeError when the file does
\* not exist or cannot be parsed; given the empty string it returns the
\* empty map without looking for a file.
C21_PathAsDict ==
    Called =>
        /\ HoldsDict(PathGiven)
               => mcp_result = config_mcp(DictOf(PathGiven))
        /\ (NotLoadable(PathGiven) /\ ~FalsyPath(PathGiven))
               => mcp_result = Raise("RuntimeError")
        /\ (PathGiven.kind = "path" /\ FalsyPath(PathGiven))
               => mcp_result = Return(EmptyDict)

C21_Witness ==
    /\ Called
    /\ HoldsDict(PathGiven)
    /\ Len(PathGiven.file.doc.pairs) = 2
    /\ mcp_result.kind = "ok"
    /\ \E n, m \in DOMAIN mcp_result.value :
          /\ mcp_result.value[n].cls = "stdioMCP"
          /\ mcp_result.value[m].cls = "streamableHttpMCP"

====
